---- MODULE Spec2Model ----
(***************************************************************************)
(* The ceremony routes of backend/routes/auth.js as a state machine.       *)
(*                                                                         *)
(* State: the express-session store (one session object per session id),   *)
(* the Users and Credentials tables, the requests the server is working    *)
(* on, and a log of the last response sent.  The two completion handlers   *)
(* (/register/response, /login/response) are split at their awaits, so     *)
(* two requests can interleave between the session check, the database     *)
(* reads and writes and the session save.  Every request works on its own  *)
(* copy of the session (express-session loads req.session from the store   *)
(* when the request arrives) and writes that copy back when it responds    *)
(* (server.js wraps res.json with req.session.save()).                     *)
(***************************************************************************)
EXTENDS Integers, Sequences, FiniteSets, Bags, TLC

\* ---------------------------------------------------------------- bounds
MaxChallenges == 2
MaxCounter == 2
MaxCreds == 2
MaxInFlight == 2

\* ------------------------------------------------------------ value sets
Sessions == {"s1", "s2"}
Usernames == <<"alice", "bob">>
NoName == ""
TheDisplayName == "dn"
CredIds == <<"c1", "c2">>
NoId == ""
Keys == <<"k1", "k2">>
PlaceholderKey == "PLACEHOLDER_KEY"
Counters == 0..MaxCounter

\* A challenge value is a serial number together with the step that made
\* it: "registration" for fido2.attestationOptions() in /register,
\* "authentication" for fido2.assertionOptions() in /login, "client" for a
\* string a client made up.  The server code reads and compares the value
\* as a whole; only the properties look at the kind.
NoChallenge == [n |-> 0, kind |-> "none"]
ClientChallenge == [n |-> 0, kind |-> "client"]

\* An origin, like every string of the configuration, is the sequence of
\* its lexical pieces: names, ":" and "/".
Url(protocol, host) == <<protocol, ":", "/", "/", host>>
ExpectedOrigin == Url("https", "rp.example")
OtherOrigin == Url("https", "evil.example")
ExpectedRpId == "rp.example"
OtherRpId == "evil.example"
TypeCreate == "webauthn.create"
TypeGet == "webauthn.get"

NoChallengeMsg == "No challenge found in session"
NoUsernameMsg == "No username found in session"
NoCredentialsMsg == "No credentials found for user"
RollbackMsg == "counter rollback detected"
PersistenceMsg == "SequelizeDatabaseError"
UniqueMsg == "Validation error"
TypeErrorMsg == "Cannot read properties of undefined"

VARIABLES
  store,          \* session id -> session object held by the session store
  users,          \* Users table, in insertion order; the id is the index
  creds,          \* Credentials table, in insertion order
  nextChallenge,  \* serial number of the next challenge fido2 generates
  seen,           \* the challenge values handed out to clients so far
  reqs,           \* the bag of requests the server is working on
  cap,            \* how many requests the server handles at the same time
  clients,        \* the sessions that clients hold a cookie for
  used,           \* the handed-out challenges a /login/response has
                  \* succeeded on
  expired,        \* the serial number up to which the handed-out
                  \* challenges are older than the ceremony timeout
  last,           \* the response on its way to the client, if any
  codec,          \* the buffer or string the codec is applied to
  client,         \* the browser side: the state of AuthProvider, the
                  \* session storage and the calls under way
  env             \* process.env of the server and what getOrigin and
                  \* getRpId returned

vars == <<store, users, creds, nextChallenge, seen, reqs, cap, clients,
          expired, used, last, codec, client, env>>

\* The requests under way, without their multiplicity.
InFlight == BagToSet(reqs)

\* ------------------------------------------------------------- sessions
\* The fields of req.session the routes read.  displayName is only copied
\* from /register into the User row and is left out, as is the User row's
\* displayName.
EmptySession ==
  [challenge |-> NoChallenge, username |-> NoName, authenticated |-> FALSE]

\* ---------------------------------------------------------- fresh names
\* Usernames, credential ids and keys are opaque: the routes only compare
\* them.  A client that brings a name the server has not met yet therefore
\* always brings the first unused one.
First(order, taken) ==
  IF \E i \in 1..Len(order) : order[i] \notin taken
  THEN {order[CHOOSE i \in 1..Len(order) :
          /\ order[i] \notin taken
          /\ \A j \in 1..(i - 1) : order[j] \in taken]}
  ELSE {}

KnownUsernames ==
  ({users[i].username : i \in 1..Len(users)}
     \cup {store[s].username : s \in Sessions}
     \cup {q.session.username : q \in InFlight}) \ {NoName}
KnownIds == {creds[i].credentialId : i \in 1..Len(creds)}
KnownKeys == {creds[i].publicKey : i \in 1..Len(creds)} \ {PlaceholderKey}

SomeUsernames == KnownUsernames \cup First(Usernames, KnownUsernames)
SomeIds == KnownIds \cup First(CredIds, KnownIds)
SomeKeys == KnownKeys \cup First(Keys, KnownKeys)

\* ------------------------------------------------------- request bodies
\* A client may put any challenge it has seen or made up, any origin, RP id
\* and ceremony type into the client data and authenticator data of a
\* response.
ClientDatas ==
  [challenge : seen \cup {ClientChallenge},
   origin : {ExpectedOrigin, OtherOrigin}, rpId : {ExpectedRpId, OtherRpId},
   type : {TypeCreate, TypeGet}]

\* authnrData.get('counter') of an attestation that reports no counter.
NoCounter == -1

\* The bodies of a /register/response: an attestation also carries the new
\* credential's id, its public key and the authenticator's initial
\* counter.  fido2 reads the attested data only after the client data and
\* the RP id hash, so the bodies whose client data is off for an
\* attestation all carry the same id, key and counter.
SoundCreate(cd) ==
  cd.type = TypeCreate /\ cd.origin = ExpectedOrigin /\ cd.rpId = ExpectedRpId

\* A body can lack one of its fields (missing): rawId, type, or response
\* (which stands for response itself and for each of the fields the
\* handler reads from it).  The bodies that lack a field are otherwise
\* well-formed and all carry the same id, key and counter.
Nothing == ""
Fields == {"rawId", "type", "response"}

Attestations ==
  [cd : {cd \in ClientDatas : SoundCreate(cd)},
   rawId : SomeIds, key : SomeKeys, counter : Counters \cup {NoCounter},
   missing : {Nothing}]
    \cup [cd : {cd \in ClientDatas : ~SoundCreate(cd)},
          rawId : First(CredIds, {}), key : First(Keys, {}),
          counter : {0}, missing : {Nothing}]
    \cup [cd : {cd \in ClientDatas : SoundCreate(cd)},
          rawId : First(CredIds, {}), key : First(Keys, {}),
          counter : {0}, missing : Fields]

\* An assertion also carries a credential id, a signature (key: the key
\* it was made with) and the authenticator's counter.  fido2 looks at the
\* signature and the counter only after the client data and the RP id
\* hash, so the bodies whose client data is off for an assertion all carry
\* the same id, key and counter.
Sound(cd) ==
  cd.type = TypeGet /\ cd.origin = ExpectedOrigin /\ cd.rpId = ExpectedRpId

NoAssertion ==
  [cd |-> [challenge |-> NoChallenge, origin |-> <<>>, rpId |-> "",
           type |-> ""],
   rawId |-> NoId, key |-> "", counter |-> 0, missing |-> Nothing]

Assertions ==
  [cd : {cd \in ClientDatas : Sound(cd)},
   rawId : SomeIds, key : SomeKeys, counter : Counters, missing : {Nothing}]
    \cup [cd : {cd \in ClientDatas : ~Sound(cd)},
          rawId : First(CredIds, {}), key : First(Keys, {}),
          counter : {0}, missing : {Nothing}]
    \cup [cd : {cd \in ClientDatas : Sound(cd)},
          rawId : First(CredIds, {}), key : First(Keys, {}),
          counter : {0}, missing : Fields]

\* The handlers call base64URLToBuffer on rawId and on the fields of
\* response when they build the object they hand to fido2: a body that
\* lacks one of them raises a TypeError there.  type is only copied into
\* that object.
Dereferenced == {"rawId", "response"}

\* ----------------------------------------------------------- repository
\* User.findOne({ where: { username } }): the id of the row, 0 for null.
FindUser(name) ==
  IF \E i \in 1..Len(users) : users[i].username = name
  THEN CHOOSE i \in 1..Len(users) :
         /\ users[i].username = name
         /\ \A j \in 1..(i - 1) : users[j].username # name
  ELSE 0

\* The Users table holds a row with the username name: its username
\* column is unique.
UsernameTaken(name) == FindUser(name) # 0

\* user.Credentials of an include: the Credential rows of that user.
CredentialsOf(uid) == {i \in 1..Len(creds) : creds[i].userId = uid}

\* A Credential row without a counter: the column's default applies.
NewCredentialDefaultCounter(uid, cid, pk, ctr) ==
  [userId |-> uid, credentialId |-> cid, publicKey |-> pk, counter |-> 0]

NewCredential(uid, cid, pk, ctr) ==
  [userId |-> uid, credentialId |-> cid, publicKey |-> pk, counter |-> ctr]

\* attestationResult.authnrData.get('counter') || 0
InitialCounter(counter) == IF counter = NoCounter THEN 0 ELSE counter

\* --------------------------------------------------------------- fido2
\* An attestation check that does not compare the challenge.
AttestationResultAnyChallenge(cd, challenge, origin, rpId) ==
  IF cd.type # TypeCreate THEN "clientData type was not webauthn.create"
  ELSE IF cd.origin # origin THEN "clientData origin did not match expected origin"
  ELSE IF cd.rpId # rpId THEN "authnrData rpIdHash mismatch"
  ELSE ""

\* fido2.attestationResult(attestationResponse, {challenge, origin, rpId}):
\* the empty string when the attestation is accepted, else why it throws.
AttestationResult(cd, challenge, origin, rpId) ==
  IF cd.type # TypeCreate THEN "clientData type was not webauthn.create"
  ELSE IF cd.challenge # challenge THEN "clientData challenge mismatch"
  ELSE IF cd.origin # origin THEN "clientData origin did not match expected origin"
  ELSE IF cd.rpId # rpId THEN "authnrData rpIdHash mismatch"
  ELSE ""

\* A counter check that lets a repeated counter pass.
CounterRollbackRepeatable(counter, prevCounter) ==
  counter < prevCounter

\* A counter check that lets a counter of 0 pass whatever is stored.
CounterRollbackZeroTolerant(counter, prevCounter) ==
  counter # 0 /\ counter <= prevCounter

\* The counter check of fido2.assertionResult: a counter that did not
\* advance is a rollback unless both counters are 0.
CounterRollback(counter, prevCounter) ==
  counter <= prevCounter /\ ~(counter = 0 /\ prevCounter = 0)

\* An assertion check that does not look at the origin or the RP id hash.
AssertionAnyOrigin(body, challenge, origin, rpId, publicKey, prevCounter) ==
  IF body.cd.type # TypeGet THEN "clientData type was not webauthn.get"
  ELSE IF body.cd.challenge # challenge THEN "clientData challenge mismatch"
  ELSE IF body.key # publicKey THEN "signature validation failed"
  ELSE IF CounterRollback(body.counter, prevCounter) THEN RollbackMsg
  ELSE ""

\* An assertion check that does not compare the challenge.
AssertionAnyChallenge(body, challenge, origin, rpId, publicKey, prevCounter) ==
  IF body.cd.type # TypeGet THEN "clientData type was not webauthn.get"
  ELSE IF body.cd.origin # origin THEN "clientData origin did not match expected origin"
  ELSE IF body.cd.rpId # rpId THEN "authnrData rpIdHash mismatch"
  ELSE IF body.key # publicKey THEN "signature validation failed"
  ELSE IF CounterRollback(body.counter, prevCounter) THEN RollbackMsg
  ELSE ""

\* fido2.assertionResult(assertionResponse, {challenge, origin, publicKey,
\* prevCounter, rpId}): the empty string when accepted, else why it throws.
AssertionResult(body, challenge, origin, rpId, publicKey, prevCounter) ==
  IF body.cd.type # TypeGet THEN "clientData type was not webauthn.get"
  ELSE IF body.cd.challenge # challenge THEN "clientData challenge mismatch"
  ELSE IF body.cd.origin # origin THEN "clientData origin did not match expected origin"
  ELSE IF body.cd.rpId # rpId THEN "authnrData rpIdHash mismatch"
  ELSE IF body.key # publicKey THEN "signature validation failed"
  ELSE IF CounterRollback(body.counter, prevCounter) THEN RollbackMsg
  ELSE ""

\* ---- Configuration ----
\* process.env: ORIGIN and the three components of the frontend address
\* are sequences of pieces, RP_ID is a name.  Unset is a variable that is
\* undefined or empty, Undefined what an undefined component reads as in
\* the template literal.  called and the two results record the calls of
\* getOrigin and getRpId.
Unset == <<>>
Undefined == <<"undefined">>
NoRpId == ""

Origins ==
  {Unset, ExpectedOrigin, ExpectedOrigin \o <<"/">>,
   ExpectedOrigin \o <<"/", "/">>, ExpectedOrigin \o <<":", "3000", "/">>,
   <<"rp.example">>}
Protocols == {Undefined, <<"https">>}
Hosts == {Undefined, <<"rp.example">>}
Ports == {Undefined, <<"3000">>, <<"3000", "/">>, <<"3000", "/", "/">>}
RpIds == {NoRpId, ExpectedRpId, "id.example"}

Environment(origin, protocol, host, port, rpId) ==
  [ORIGIN |-> origin, FRONTEND_PROTOCOL |-> protocol, FRONTEND_HOST |-> host,
   FRONTEND_PORT |-> port, RP_ID |-> rpId, called |-> {}, origin |-> <<>>,
   rpId |-> ""]

\* The configuration the routes run under.
DefaultEnv ==
  Environment(ExpectedOrigin \o <<"/">>, <<"https">>, <<"rp.example">>,
              <<"3000">>, ExpectedRpId)

\* .replace(/\/$/, ''): one "/" at the end is removed.
StripSlash(str) ==
  IF Len(str) > 0 /\ str[Len(str)] = "/"
  THEN SubSeq(str, 1, Len(str) - 1)
  ELSE str

getOrigin ==
  LET origin == IF env.ORIGIN # Unset
                THEN env.ORIGIN
                ELSE env.FRONTEND_PROTOCOL \o <<":", "/", "/">>
                       \o env.FRONTEND_HOST \o <<":">> \o env.FRONTEND_PORT
  IN StripSlash(origin)

\* new URL(url).hostname: a scheme, "://", a host, then nothing or a port
\* of digits, then nothing or a path; Invalid when the constructor throws.
Invalid == ""
Punctuation == {":", "/"}
Digits == {"3000"}

Hostname(url) ==
  LET rest == SubSeq(url, 6, Len(url))
      path == IF Len(rest) > 0 /\ rest[1] = ":"
              THEN SubSeq(rest, IF Len(rest) > 1 /\ rest[2] \in Digits
                                THEN 3 ELSE 2, Len(rest))
              ELSE rest
  IN IF /\ Len(url) >= 5
        /\ url[1] \notin Punctuation
        /\ SubSeq(url, 2, 4) = <<":", "/", "/">>
        /\ url[5] \notin Punctuation
        /\ path = <<>> \/ path[1] = "/"
     THEN url[5]
     ELSE Invalid

getRpId ==
  IF env.RP_ID # NoRpId THEN env.RP_ID
  ELSE IF Hostname(getOrigin) = Invalid THEN "localhost"
  ELSE Hostname(getOrigin)

\* ------------------------------------------------------------- requests
\* A request under way: where it stands (pc), its route, its session id,
\* its own copy of the session, and what it has read so far: the user row,
\* the Credential row and the request body.
Request(pc, op, s, session) ==
  [pc |-> pc, op |-> op, sess |-> s, session |-> session,
   body |-> NoAssertion, user |-> 0, cred |-> 0]

\* The bag of requests when req is done, and when req has moved on to next.
Take(req) == reqs (-) SetToBag({req})
Move(req, next) == Take(req) (+) SetToBag({next})

\* The response log entry of a request: the route, the session, the
\* outcome, the error message, the pending challenge the request found in
\* its session and, for an assertion rejected for its counter, the counter
\* it presented.
Response(op, s, status, reason, challenge) ==
  [op |-> op, sess |-> s, status |-> status, reason |-> reason,
   challenge |-> challenge, counter |-> 0, user |-> NoName]

NoResponse == Response("none", "s1", "ok", "", NoChallenge)

\* The server runs a step of a handler when no response is waiting to be
\* picked up (Deliver).
Ready == last = NoResponse

\* The routes that are modelled as one step are served between the
\* requests that take several.
Serves(s) ==
  /\ Ready
  /\ s \in clients
  /\ reqs = EmptyBag

\* A completion request is taken while the server works on fewer than cap
\* requests.
Accepts(s) ==
  /\ Ready
  /\ s \in clients
  /\ BagCardinality(reqs) < cap

\* res.json of server.js: req.session.save() writes the request's session
\* object to the store, then the response goes out.
Respond(s, session, entry) ==
  /\ store' = [store EXCEPT ![s] = session]
  /\ last' = entry

\* ---- Codec ----
\* A byte buffer is the sequence of its bytes and a string the sequence of
\* its characters.
MaxLen == 2
MaxLong == 4
MaxWire == 2

Bytes == 0..255
EdgeBytes == {0, 251, 255}

\* Every buffer of up to MaxLen bytes, and the buffers of up to MaxLong
\* bytes made of EdgeBytes.
Buffers ==
  UNION {[1..n -> Bytes] : n \in 0..MaxLen}
    \cup UNION {[1..n -> EdgeBytes] : n \in (MaxLen + 1)..MaxLong}

\* The alphabet of standard base64, in the order of the values 0..63.
Base64Chars ==
  <<"A", "B", "C", "D", "E", "F", "G", "H", "I", "J", "K", "L", "M",
    "N", "O", "P", "Q", "R", "S", "T", "U", "V", "W", "X", "Y", "Z",
    "a", "b", "c", "d", "e", "f", "g", "h", "i", "j", "k", "l", "m",
    "n", "o", "p", "q", "r", "s", "t", "u", "v", "w", "x", "y", "z",
    "0", "1", "2", "3", "4", "5", "6", "7", "8", "9", "+", "/">>

Range(f) == {f[i] : i \in DOMAIN f}
Base64UrlChars == (Range(Base64Chars) \ {"+", "/"}) \cup {"-", "_"}
Whitespace == {" "}

\* The strings a client can send: up to MaxWire characters of the base64url
\* alphabet, of "+", "/" and "=", of white space and of "!".
WireChars == Base64UrlChars \cup {"+", "/", "=", "!"} \cup Whitespace
Wires == UNION {[1..n -> WireChars] : n \in 0..MaxWire}

Char(v) == Base64Chars[v + 1]

\* The value of a character of either alphabet.
Value(c) ==
  IF c = "-" THEN 62
  ELSE IF c = "_" THEN 63
  ELSE (CHOOSE i \in 1..64 : Base64Chars[i] = c) - 1

\* Buffer.prototype.toString('base64') and btoa on a string of bytes:
\* standard base64 with "=" padding.
RECURSIVE ToBase64(_)
ToBase64(b) ==
  IF Len(b) = 0 THEN <<>>
  ELSE IF Len(b) = 1
  THEN <<Char(b[1] \div 4), Char((b[1] % 4) * 16), "=", "=">>
  ELSE IF Len(b) = 2
  THEN <<Char(b[1] \div 4), Char((b[1] % 4) * 16 + b[2] \div 16),
         Char((b[2] % 16) * 4), "=">>
  ELSE <<Char(b[1] \div 4), Char((b[1] % 4) * 16 + b[2] \div 16),
         Char((b[2] % 16) * 4 + b[3] \div 64), Char(b[3] % 64)>>
         \o ToBase64(SubSeq(b, 4, Len(b)))

\* The bytes of a sequence of 6-bit values; the bits left over at the end
\* are dropped.
RECURSIVE FromSextets(_)
FromSextets(v) ==
  IF Len(v) < 2 THEN <<>>
  ELSE IF Len(v) = 2
  THEN <<v[1] * 4 + v[2] \div 16>>
  ELSE IF Len(v) = 3
  THEN <<v[1] * 4 + v[2] \div 16, (v[2] % 16) * 16 + v[3] \div 4>>
  ELSE <<v[1] * 4 + v[2] \div 16, (v[2] % 16) * 16 + v[3] \div 4,
         (v[3] % 4) * 64 + v[4]>>
         \o FromSextets(SubSeq(v, 5, Len(v)))

\* String.prototype.replace with a global pattern of one character.
Replace(str, from, to) ==
  [i \in 1..Len(str) |-> IF str[i] = from THEN to ELSE str[i]]

\* .replace(/=+$/, '')
RECURSIVE StripPadding(_)
StripPadding(str) ==
  IF Len(str) > 0 /\ str[Len(str)] = "="
  THEN StripPadding(SubSeq(str, 1, Len(str) - 1))
  ELSE str

\* .replace(/=/g, '')
RemovePadding(str) == SelectSeq(str, LAMBDA c : c # "=")

Repeat(c, n) == [i \in 1..n |-> c]

\* The part of a string before its first "=".
BeforePadding(str) ==
  IF \E i \in 1..Len(str) : str[i] = "="
  THEN SubSeq(str, 1, (CHOOSE i \in 1..Len(str) :
                         /\ str[i] = "="
                         /\ \A j \in 1..(i - 1) : str[j] # "=") - 1)
  ELSE str

\* Buffer.from(str, 'base64'): Node decodes the characters of both
\* alphabets, skips every other character, stops at the first "=" and
\* never throws on a string.
BufferFrom(str) ==
  LET legal == SelectSeq(BeforePadding(str),
                         LAMBDA c : c \in Range(Base64Chars) \cup {"-", "_"})
  IN FromSextets([i \in 1..Len(legal) |-> Value(legal[i])])

\* atob: removes ASCII white space, then one or two trailing "=" of a
\* string whose length is a multiple of 4, throws InvalidCharacterError on
\* a length of 1 modulo 4 or on a character outside standard base64.
InvalidCharacter == "InvalidCharacterError"
Decoded(buffer) == [error |-> "", buffer |-> buffer]
Thrown(error) == [error |-> error, buffer |-> <<>>]

atob(str) ==
  LET data == SelectSeq(str, LAMBDA c : c \notin Whitespace)
      n == Len(data)
      cut == IF n % 4 = 0 /\ n > 0 /\ data[n] = "="
             THEN IF data[n - 1] = "=" THEN 2 ELSE 1
             ELSE 0
      rest == SubSeq(data, 1, n - cut)
  IN IF Len(rest) % 4 = 1 \/ \E i \in 1..Len(rest) : rest[i] \notin Range(Base64Chars)
     THEN Thrown(InvalidCharacter)
     ELSE Decoded(FromSextets([i \in 1..Len(rest) |-> Value(rest[i])]))

\* Server: bufferToBase64url and base64URLToBuffer.
\* The encoder had it kept the padding of standard base64.
bufferToBase64urlPadded(buffer) ==
  Replace(Replace(ToBase64(buffer), "+", "-"), "/", "_")

bufferToBase64url(buffer) ==
  StripPadding(Replace(Replace(ToBase64(buffer), "+", "-"), "/", "_"))

base64URLToBuffer(base64URL) ==
  LET base64 == Replace(Replace(base64URL, "-", "+"), "_", "/")
      padLen == (4 - (Len(base64) % 4)) % 4
      padded == base64 \o Repeat("=", padLen)
  IN Decoded(BufferFrom(padded))

\* Client: arrayBufferToBase64URL and base64URLToBuffer.
arrayBufferToBase64URL(buffer) ==
  RemovePadding(Replace(Replace(ToBase64(buffer), "+", "-"), "/", "_"))

clientBase64URLToBuffer(base64URL) ==
  IF Len(base64URL) = 0
  THEN Decoded(<<>>)
  ELSE LET base64 == Replace(Replace(base64URL, "-", "+"), "_", "/")
           paddedBase64 == base64 \o Repeat("=", (4 - (Len(base64) % 4)) % 4)
       IN atob(paddedBase64)

\* One use of the codec: a buffer to encode or a string to decode, who
\* encoded and decoded it, and what came out.
NoCodec ==
  [pc |-> "idle", buffer |-> <<>>, wire |-> <<>>, encoder |-> "",
   decoder |-> "", out |-> Decoded(<<>>)]

\* The browser before the application is loaded.  pc is where the page
\* stands, validity whether a checkSessionValidity is due, currentUser the
\* state of AuthProvider, stored the authenticatedUser item of
\* sessionStorage, op the service function under way or last run, calls
\* the requests it has made with their results, outcome how it ended,
\* answers what /auth/verify-session has answered since the page loaded.
NoClient ==
  [pc |-> "closed", validity |-> "off", currentUser |-> NoName,
   stored |-> NoName, username |-> NoName, op |-> "", calls |-> <<>>,
   outcome |-> "", answers |-> {}]

Init ==
  /\ store = [s \in Sessions |-> EmptySession]
  /\ users = <<>>
  /\ creds = <<>>
  /\ nextChallenge = 1
  /\ seen = {}
  /\ reqs = EmptyBag
  /\ cap = 1
  /\ clients = {"s1"}
  /\ used = {}
  /\ expired = 0
  /\ last = NoResponse
  /\ codec = NoCodec
  /\ client = NoClient
  /\ env = DefaultEnv

\* The client reads the response.
Deliver ==
  /\ last # NoResponse
  /\ last' = NoResponse
  /\ UNCHANGED <<store, users, creds, nextChallenge, seen, reqs, cap, clients,
                 expired, used,
                 codec, client, env>>

\* A /register that does not look for an existing user.
RegisterUnchecked(s, username, displayName) ==
  /\ Serves(s)
  /\ LET session == store[s]
         challenge == [n |-> nextChallenge, kind |-> "registration"]
     IN
     IF username = NoName \/ displayName = NoName
     THEN /\ Respond(s, session, Response("register", s, "error",
                 "Missing username or displayName", session.challenge))
          /\ UNCHANGED <<nextChallenge, seen>>
     ELSE /\ nextChallenge <= MaxChallenges
          /\ Respond(s, [session EXCEPT !.challenge = challenge,
                                        !.username = username],
                     Response("register", s, "ok", "", session.challenge))
          /\ seen' = seen \cup {challenge}
          /\ nextChallenge' = nextChallenge + 1
  /\ UNCHANGED <<users, creds, reqs, cap, clients, expired, used,
                 codec, client, env>>

\* POST /register
Register(s, username, displayName) ==
  /\ Serves(s)
  /\ LET session == store[s]
         challenge == [n |-> nextChallenge, kind |-> "registration"]
     IN
     IF username = NoName \/ displayName = NoName
     THEN /\ Respond(s, session, Response("register", s, "error",
                 "Missing username or displayName", session.challenge))
          /\ UNCHANGED <<nextChallenge, seen>>
     ELSE IF FindUser(username) # 0
     THEN /\ Respond(s, session, Response("register", s, "error",
                 "Username already exists", session.challenge))
          /\ UNCHANGED <<nextChallenge, seen>>
     ELSE /\ nextChallenge <= MaxChallenges
          /\ Respond(s, [session EXCEPT !.challenge = challenge,
                                        !.username = username],
                     Response("register", s, "ok", "", session.challenge))
          /\ seen' = seen \cup {challenge}
          /\ nextChallenge' = nextChallenge + 1
  /\ UNCHANGED <<users, creds, reqs, cap, clients, expired, used,
                 codec, client, env>>

\* POST /store-challenge
StoreChallenge(s, challenge) ==
  /\ Serves(s)
  /\ LET session == store[s] IN
     IF challenge = NoChallenge
     THEN /\ Respond(s, session, Response("store-challenge", s, "error",
                 "Missing challenge", session.challenge))
     ELSE Respond(s, [session EXCEPT !.challenge = challenge],
                 Response("store-challenge", s, "ok", "", session.challenge))
  /\ UNCHANGED <<users, creds, nextChallenge, seen, reqs, cap, clients,
                 expired, used,
                 codec, client, env>>

\* POST /logout: req.session.destroy() removes the session from the store;
\* the next request with that cookie starts from an empty session.
Logout(s) ==
  /\ Serves(s)
  /\ store[s] # EmptySession
  /\ Respond(s, EmptySession,
             Response("logout", s, "ok", "", store[s].challenge))
  /\ UNCHANGED <<users, creds, nextChallenge, seen, reqs, cap, clients,
                 expired, used,
                 codec, client, env>>

\* GET /verify-session: the identity the route reports for a session, or
\* NoName when it answers authenticated: false.
Reported(session) ==
  IF session.authenticated /\ session.username # NoName
       /\ FindUser(session.username) # 0
  THEN users[FindUser(session.username)].username
  ELSE NoName

VerifySession(s) ==
  /\ Serves(s)
  /\ Respond(s, store[s],
             [Response("verify-session", s, "ok", "", store[s].challenge)
              EXCEPT !.user = Reported(store[s])])
  /\ UNCHANGED <<users, creds, nextChallenge, seen, reqs, cap, clients,
                 expired, used,
                 codec, client, env>>

\* A /login that drops the pending challenge when it rejects the username.
LoginRejectionClears(s, username) ==
  /\ Serves(s)
  /\ LET session == store[s]
         user == FindUser(username)
         challenge == [n |-> nextChallenge, kind |-> "authentication"]
     IN
     IF username = NoName
     THEN /\ Respond(s, session, Response("login", s, "error",
                 "Missing username", session.challenge))
          /\ UNCHANGED <<nextChallenge, seen>>
     ELSE IF user = 0 \/ CredentialsOf(user) = {}
     THEN /\ Respond(s, [session EXCEPT !.challenge = NoChallenge],
                     Response("login", s, "error",
                 "User not found or no credentials registered",
                 session.challenge))
          /\ UNCHANGED <<nextChallenge, seen>>
     ELSE /\ nextChallenge <= MaxChallenges
          /\ Respond(s, [session EXCEPT !.challenge = challenge,
                                        !.username = username],
                     Response("login", s, "ok", "", session.challenge))
          /\ seen' = seen \cup {challenge}
          /\ nextChallenge' = nextChallenge + 1
  /\ UNCHANGED <<users, creds, reqs, cap, clients, expired, used,
                 codec, client, env>>

\* POST /login
Login(s, username) ==
  /\ Serves(s)
  /\ LET session == store[s]
         user == FindUser(username)
         challenge == [n |-> nextChallenge, kind |-> "authentication"]
     IN
     IF username = NoName
     THEN /\ Respond(s, session, Response("login", s, "error",
                 "Missing username", session.challenge))
          /\ UNCHANGED <<nextChallenge, seen>>
     ELSE IF user = 0 \/ CredentialsOf(user) = {}
     THEN /\ Respond(s, session, Response("login", s, "error",
                 "User not found or no credentials registered",
                 session.challenge))
          /\ UNCHANGED <<nextChallenge, seen>>
     ELSE /\ nextChallenge <= MaxChallenges
          /\ Respond(s, [session EXCEPT !.challenge = challenge,
                                        !.username = username],
                     Response("login", s, "ok", "", session.challenge))
          /\ seen' = seen \cup {challenge}
          /\ nextChallenge' = nextChallenge + 1
  /\ UNCHANGED <<users, creds, reqs, cap, clients, expired, used,
                 codec, client, env>>

\* The Users table after "find the user, create it when there is none".
FindOrCreateUser(username) ==
  IF FindUser(username) # 0 THEN users
  ELSE Append(users, [username |-> username])

\* An owner id that is always the one of a row yet to be inserted.
FoundOrCreatedIdFresh(username) == Len(users) + 1

\* The id of the row FindOrCreateUser finds or creates.
FoundOrCreatedId(username) ==
  IF FindUser(username) # 0 THEN FindUser(username) ELSE Len(users) + 1

\* The session a direct registration leaves behind.
DirectSession(session, username) ==
  [session EXCEPT !.authenticated = TRUE, !.username = username,
                  !.challenge = NoChallenge]

\* The number of requests under way that will insert a Credential row.
Registering ==
  CopiesIn("register/response", BagOfAll(LAMBDA q : q.op, reqs))

\* POST /register-direct (first definition)
RegisterDirect(s, username, rawId) ==
  /\ Serves(s)
  /\ LET session == store[s] IN
     IF username = NoName
     THEN /\ Respond(s, session, Response("register-direct", s, "error",
                 "Username required", session.challenge))
          /\ UNCHANGED <<users, creds>>
     ELSE IF rawId = NoId
     THEN /\ Respond(s, session, Response("register-direct", s, "error",
                 "No credential ID provided", session.challenge))
          /\ UNCHANGED <<users, creds>>
     ELSE /\ Len(creds) + Registering < MaxCreds
          /\ users' = FindOrCreateUser(username)
          /\ creds' = Append(creds, NewCredential(FoundOrCreatedId(username),
                                                  rawId, PlaceholderKey, 0))
          /\ Respond(s, DirectSession(session, username),
                     Response("register-direct", s, "ok", "",
                              session.challenge))
  /\ UNCHANGED <<nextChallenge, seen, reqs, cap, clients, expired, used,
                 codec, client, env>>

\* POST /register-direct (second definition)
RegisterDirectV2(s, bodyUsername, rawId) ==
  /\ Serves(s)
  /\ LET session == store[s]
         username == IF session.username # NoName THEN session.username
                     ELSE bodyUsername
     IN
     IF username = NoName
     THEN /\ Respond(s, session, Response("register-direct-2", s, "error",
                 "Username required", session.challenge))
          /\ UNCHANGED <<users, creds>>
     ELSE IF rawId = NoId
     \* Credential.create rejects the missing credentialId (allowNull:
     \* false) after the user row has been written.
     THEN /\ users' = FindOrCreateUser(username)
          /\ Respond(s, session, Response("register-direct-2", s, "error",
                 "Database error", session.challenge))
          /\ UNCHANGED creds
     ELSE /\ Len(creds) + Registering < MaxCreds
          /\ users' = FindOrCreateUser(username)
          /\ creds' = Append(creds, NewCredential(FoundOrCreatedId(username),
                                                  rawId, PlaceholderKey, 0))
          /\ Respond(s, DirectSession(session, username),
                     Response("register-direct-2", s, "ok", "",
                              session.challenge))
  /\ UNCHANGED <<nextChallenge, seen, reqs, cap, clients, expired, used,
                 codec, client, env>>

\* A /register/verify whose update also resets the counter.
RegisterVerifyResetsCounter(s, credentialId, username) ==
  /\ Serves(s)
  /\ LET session == store[s]
         user == FindUser(username)
         found == {i \in CredentialsOf(user) :
                    creds[i].credentialId = credentialId}
         answer(status, reason) ==
           Respond(s, session, Response("register/verify", s, status, reason,
                                        session.challenge))
     IN
     IF credentialId = NoId \/ username = NoName
     THEN answer("error", "Missing required parameters") /\ UNCHANGED creds
     ELSE IF ~session.authenticated \/ session.username # username
     THEN answer("error", "Authentication required") /\ UNCHANGED creds
     ELSE IF user = 0 \/ found = {}
     THEN answer("error", "Verification failed") /\ UNCHANGED creds
     ELSE /\ answer("ok", "")
          /\ \E i \in found : creds' = [creds EXCEPT ![i].counter = 0]
  /\ UNCHANGED <<users, nextChallenge, seen, reqs, cap, clients, expired, used,
                 codec, client, env>>

\* POST /register/verify.  user.Credentials[0].update({ verified: true })
\* names a column the Credential model does not define, so no column of
\* the row changes.
RegisterVerify(s, credentialId, username) ==
  /\ Serves(s)
  /\ LET session == store[s]
         user == FindUser(username)
         found == {i \in CredentialsOf(user) :
                    creds[i].credentialId = credentialId}
         answer(status, reason) ==
           Respond(s, session, Response("register/verify", s, status, reason,
                                        session.challenge))
     IN
     IF credentialId = NoId \/ username = NoName
     THEN answer("error", "Missing required parameters")
     ELSE IF ~session.authenticated \/ session.username # username
     THEN answer("error", "Authentication required")
     ELSE IF user = 0 \/ found = {}
     THEN answer("error", "Verification failed")
     ELSE answer("ok", "")
  /\ UNCHANGED <<users, creds, nextChallenge, seen, reqs, cap, clients,
                 expired, used,
                 codec, client, env>>

\* The session a verified completion leaves behind.
CompletedSession(session) ==
  [session EXCEPT !.challenge = NoChallenge, !.authenticated = TRUE]

\* POST /register/response (first definition), up to the answer of
\* User.findOne: the session check, fido2.attestationResult and the lookup
\* of the session's username.
RegisterResponseStart(s, body) ==
  /\ Accepts(s)
  /\ Len(creds) + Registering < MaxCreds
  /\ LET session == store[s]
         reason == AttestationResult(body.cd, session.challenge, getOrigin,
                                     getRpId)
         user == FindUser(session.username)
     IN
     IF session.challenge = NoChallenge
     THEN /\ Respond(s, session, Response("register/response", s, "error",
                 NoChallengeMsg, session.challenge))
          /\ UNCHANGED reqs
     ELSE IF body.missing \in Dereferenced
     THEN /\ Respond(s, session, Response("register/response", s, "error",
                 TypeErrorMsg, session.challenge))
          /\ UNCHANGED reqs
     ELSE IF reason # ""
     THEN /\ Respond(s, session, Response("register/response", s, "error",
                 reason, session.challenge))
          /\ UNCHANGED reqs
     ELSE IF session.username = NoName
     \* Sequelize refuses a where clause with an undefined value
     THEN /\ Respond(s, session, Response("register/response", s, "error",
                 "WHERE parameter has invalid undefined value",
                 session.challenge))
          /\ UNCHANGED reqs
     ELSE /\ reqs' = reqs (+) SetToBag({
                     [Request(IF user = 0 THEN "createUser"
                              ELSE "createCredential",
                              "register/response", s, session)
                      EXCEPT !.user = user, !.body = body]})
          /\ UNCHANGED <<store, last>>
  /\ UNCHANGED <<users, creds, nextChallenge, seen, cap, clients, expired,
                 used,
                 codec, client, env>>

\* A User.create that inserts whatever username it is given.
RegisterResponseCreateUserUnconstrained(req) ==
  /\ Ready
  /\ BagIn(req, reqs)
  /\ req.pc = "createUser"
  /\ users' = Append(users, [username |-> req.session.username])
  /\ reqs' = Move(req, [req EXCEPT !.pc = "createCredential",
                                     !.user = Len(users) + 1])
  /\ UNCHANGED <<store, creds, nextChallenge, seen, cap, clients, expired,
                 used, last,
                 codec, client, env>>

\* ... user = await User.create({ username, displayName }).  The Users
\* table refuses a second row with a username it holds (UsernameTaken);
\* the rejection goes to the catch block.
RegisterResponseCreateUser(req) ==
  /\ Ready
  /\ BagIn(req, reqs)
  /\ req.pc = "createUser"
  /\ IF UsernameTaken(req.session.username)
     THEN /\ Respond(req.sess, req.session,
                     Response("register/response", req.sess, "error",
                              UniqueMsg, req.session.challenge))
          /\ reqs' = Take(req)
          /\ UNCHANGED users
     ELSE /\ users' = Append(users, [username |-> req.session.username])
          /\ reqs' = Move(req, [req EXCEPT !.pc = "createCredential",
                                             !.user = Len(users) + 1])
          /\ UNCHANGED <<store, last>>
  /\ UNCHANGED <<creds, nextChallenge, seen, cap, clients, expired, used,
                 codec, client, env>>

\* ... await Credential.create({ userId, credentialId: rawId, publicKey,
\* counter }), the session update, req.session.save() and the response.
RegisterResponseFinish(req) ==
  /\ Ready
  /\ BagIn(req, reqs)
  /\ req.pc = "createCredential"
  /\ creds' = Append(creds,
                     NewCredential(req.user, req.body.rawId, req.body.key,
                                   InitialCounter(req.body.counter)))
  /\ Respond(req.sess, CompletedSession(req.session),
             Response("register/response", req.sess, "ok", "",
                      req.session.challenge))
  /\ reqs' = Take(req)
  /\ UNCHANGED <<users, nextChallenge, seen, cap, clients, expired, used,
                 codec, client, env>>

\* ... User.create or Credential.create rejects (the database refuses the
\* row or cannot be reached): the catch block answers with the error; the
\* request's session still holds the challenge.
RegisterResponsePersistFails(req) ==
  /\ Ready
  /\ BagIn(req, reqs)
  /\ req.pc \in {"createUser", "createCredential"}
  /\ Respond(req.sess, req.session,
             Response("register/response", req.sess, "error", PersistenceMsg,
                      req.session.challenge))
  /\ reqs' = Take(req)
  /\ UNCHANGED <<users, creds, nextChallenge, seen, cap, clients, expired,
                 used,
                 codec, client, env>>

\* POST /login/response, up to the first database call: the session checks.
LoginResponseStart(s) ==
  /\ Accepts(s)
  /\ LET session == store[s] IN
     IF session.challenge = NoChallenge
     THEN /\ Respond(s, session, Response("login/response", s, "error",
                 NoChallengeMsg, session.challenge))
          /\ UNCHANGED reqs
     ELSE IF session.username = NoName
     THEN /\ Respond(s, session, Response("login/response", s, "error",
                 NoUsernameMsg, session.challenge))
          /\ UNCHANGED reqs
     ELSE /\ reqs' = reqs (+) SetToBag({Request("verify", "login/response",
                                                  s, session)})
          /\ UNCHANGED <<store, last>>
  /\ UNCHANGED <<users, creds, nextChallenge, seen, cap, clients, expired,
                 used,
                 codec, client, env>>

\* ... the answer of User.findOne({ include: Credential }), the choice of
\* user.Credentials[0] and fido2.assertionResult.  The query has no ORDER
\* BY, so any of the user's Credential rows can come first.
LoginResponseVerify(req, body, c) ==
  /\ Ready
  /\ BagIn(req, reqs)
  /\ req.pc = "verify"
  /\ LET user == FindUser(req.session.username) IN
     IF user = 0 \/ CredentialsOf(user) = {}
     THEN /\ c = 0
          /\ Respond(req.sess, req.session, Response("login/response",
                 req.sess, "error", NoCredentialsMsg, req.session.challenge))
          /\ reqs' = Take(req)
     ELSE /\ c \in CredentialsOf(user)
          /\ LET reason == AssertionResult(body, req.session.challenge,
                             getOrigin, getRpId, creds[c].publicKey,
                             creds[c].counter)
             IN
             IF body.missing \in Dereferenced
             THEN /\ Respond(req.sess, req.session,
                             Response("login/response", req.sess, "error",
                                      TypeErrorMsg, req.session.challenge))
                  /\ reqs' = Take(req)
             ELSE IF reason # ""
             THEN /\ Respond(req.sess, req.session,
                             [Response("login/response", req.sess, "error",
                                       reason, req.session.challenge)
                              EXCEPT !.counter = IF reason = RollbackMsg
                                                 THEN body.counter ELSE 0])
                  /\ reqs' = Take(req)
             ELSE /\ reqs' = Move(req, [req EXCEPT !.pc = "update",
                                                     !.body = body,
                                                     !.cred = c])
                  /\ UNCHANGED <<store, last>>
  /\ UNCHANGED <<users, creds, nextChallenge, seen, cap, clients, expired,
                 used,
                 codec, client, env>>

\* A last step of /login/response that does not write the counter.
LoginResponseFinishNoUpdate(req) ==
  /\ Ready
  /\ BagIn(req, reqs)
  /\ req.pc = "update"
  /\ Respond(req.sess, CompletedSession(req.session),
             Response("login/response", req.sess, "ok", "",
                      req.session.challenge))
  /\ used' = used \cup ({req.session.challenge} \cap seen)
  /\ reqs' = Take(req)
  /\ UNCHANGED <<users, creds, nextChallenge, seen, cap, clients, expired,
                 codec, client, env>>

\* ... await credential.update({ counter: result.authnrData.get('counter') }),
\* the session update, req.session.save() and the response.
LoginResponseFinish(req) ==
  /\ Ready
  /\ BagIn(req, reqs)
  /\ req.pc = "update"
  /\ creds' = [creds EXCEPT ![req.cred].counter = req.body.counter]
  /\ Respond(req.sess, CompletedSession(req.session),
             Response("login/response", req.sess, "ok", "",
                      req.session.challenge))
  /\ used' = used \cup ({req.session.challenge} \cap seen)
  /\ reqs' = Take(req)
  /\ UNCHANGED <<users, nextChallenge, seen, cap, clients, expired,
                 codec, client, env>>

\* The sessions a one-step route can be served for, the sessions a
\* completion request can arrive for and the requests that stand at pc, in
\* the current state.
Served == {s \in Sessions : Serves(s)}
Arriving == {s \in Sessions : Accepts(s)}
At(pc) == {req \in InFlight : Ready /\ req.pc = pc}

Next ==
  \/ Deliver
  \/ \E s \in Served, u \in SomeUsernames \cup {NoName},
        d \in {NoName, TheDisplayName} : Register(s, u, d)
  \/ \E s \in Served,
        c \in seen \cup {ClientChallenge, NoChallenge} : StoreChallenge(s, c)
  \/ \E s \in Served : Logout(s)
  \/ \E s \in Served : VerifySession(s)
  \/ \E s \in Served, u \in SomeUsernames \cup {NoName} :
        Login(s, u)
  \/ \E s \in Served, u \in SomeUsernames \cup {NoName},
        id \in SomeIds \cup {NoId} : RegisterDirect(s, u, id)
  \/ \E s \in Served, u \in SomeUsernames \cup {NoName},
        id \in SomeIds \cup {NoId} : RegisterDirectV2(s, u, id)
  \/ \E s \in Served, id \in SomeIds \cup {NoId},
        u \in SomeUsernames \cup {NoName} : RegisterVerify(s, id, u)
  \/ \E s \in Arriving, body \in Attestations :
        RegisterResponseStart(s, body)
  \/ \E req \in At("createUser") : RegisterResponseCreateUser(req)
  \/ \E req \in At("createCredential") : RegisterResponseFinish(req)
  \/ \E req \in At("createUser") \cup At("createCredential") :
        RegisterResponsePersistFails(req)
  \/ \E s \in Arriving : LoginResponseStart(s)
  \/ \E req \in At("verify"), body \in Assertions, c \in 0..MaxCreds :
        LoginResponseVerify(req, body, c)
  \/ \E req \in At("update") : LoginResponseFinish(req)

\* One client session, one request at a time.
Spec == Init /\ [][Next]_vars

\* One client session, two requests at a time, from the state in which
\* "alice" has registered one credential (Registered: /register, then
\* /register/response).
Registered ==
  /\ store = [s \in Sessions |->
               IF s = "s1"
               THEN [challenge |-> NoChallenge, username |-> "alice",
                     authenticated |-> TRUE]
               ELSE EmptySession]
  /\ users = <<[username |-> "alice"]>>
  /\ creds = <<NewCredential(1, "c1", "k1", 0)>>
  /\ nextChallenge = 2
  /\ seen = {[n |-> 1, kind |-> "registration"]}
  /\ reqs = EmptyBag
  /\ clients = {"s1"}
  /\ used = {}
  /\ expired = 0
  /\ last = NoResponse
  /\ codec = NoCodec
  /\ client = NoClient
  /\ env = DefaultEnv

InitConc == Registered /\ cap = MaxInFlight

SpecConc == InitConc /\ [][Next]_vars

\* Time passes between two requests: the oldest handed-out challenge that
\* was younger than the ceremony timeout (timeout: 60000 in the Fido2Lib
\* options) is now older than it.  The session stays alive (the cookie's
\* maxAge is 7 days from the last request).  No route reads a clock and
\* the session holds no time of issue, so no other variable changes.
Elapse ==
  /\ Ready
  /\ reqs = EmptyBag
  /\ expired < nextChallenge - 1
  /\ expired' = expired + 1
  /\ UNCHANGED <<store, users, creds, nextChallenge, seen, reqs, cap, clients,
                 used, last,
                 codec, client, env>>

NextTime == Next \/ Elapse

\* One client session, one request at a time, with the passing of time.
SpecTime == Init /\ [][NextTime]_vars

\* The registration routes: the routes that write the Users table.
NextRace ==
  \/ Deliver
  \/ \E s \in Served, u \in SomeUsernames \cup {NoName},
        d \in {NoName, TheDisplayName} : Register(s, u, d)
  \/ \E s \in Served, u \in SomeUsernames \cup {NoName},
        id \in SomeIds \cup {NoId} : RegisterDirect(s, u, id)
  \/ \E s \in Served, u \in SomeUsernames \cup {NoName},
        id \in SomeIds \cup {NoId} : RegisterDirectV2(s, u, id)
  \/ \E s \in Arriving, body \in Attestations :
        RegisterResponseStart(s, body)
  \/ \E req \in At("createUser") : RegisterResponseCreateUser(req)
  \/ \E req \in At("createCredential") : RegisterResponseFinish(req)
  \/ \E req \in At("createUser") \cup At("createCredential") :
        RegisterResponsePersistFails(req)

\* Two client sessions, two registration requests at a time, from the
\* state in which both sessions have asked /register for the same new
\* username: both passed the existence check and hold a registration
\* challenge.
Raced ==
  /\ store = [s \in Sessions |->
               [challenge |-> [n |-> IF s = "s1" THEN 1 ELSE 2,
                               kind |-> "registration"],
                username |-> "alice", authenticated |-> FALSE]]
  /\ users = <<>>
  /\ creds = <<>>
  /\ nextChallenge = 3
  /\ seen = {[n |-> 1, kind |-> "registration"],
             [n |-> 2, kind |-> "registration"]}
  /\ reqs = EmptyBag
  /\ clients = Sessions
  /\ used = {}
  /\ expired = 0
  /\ last = NoResponse
  /\ codec = NoCodec
  /\ client = NoClient
  /\ env = DefaultEnv

InitRace == Raced /\ cap = MaxInFlight

SpecRace == InitRace /\ [][NextRace]_vars

\* The registration ceremony alone: /register and /register/response.
NextCeremony ==
  \/ Deliver
  \/ \E s \in Served, u \in SomeUsernames \cup {NoName},
        d \in {NoName, TheDisplayName} : Register(s, u, d)
  \/ \E s \in Arriving, body \in Attestations :
        RegisterResponseStart(s, body)
  \/ \E req \in At("createUser") : RegisterResponseCreateUser(req)
  \/ \E req \in At("createCredential") : RegisterResponseFinish(req)
  \/ \E req \in At("createUser") \cup At("createCredential") :
        RegisterResponsePersistFails(req)

\* The two sessions of Raced complete their ceremonies, one after the
\* other or interleaved.
SpecCeremony == InitRace /\ [][NextCeremony]_vars

\* The codec on its own: it is given a buffer, which the server or the
\* client encodes and the server or the client then decodes, or a string
\* from the wire, which the server or the client decodes.
Backend == <<store, users, creds, nextChallenge, seen, reqs, cap, clients,
             expired, used, last>>
Rest == <<Backend, client, env>>

InitCodec ==
  /\ store = [s \in Sessions |-> EmptySession]
  /\ users = <<>>
  /\ creds = <<>>
  /\ nextChallenge = 1
  /\ seen = {}
  /\ reqs = EmptyBag
  /\ cap = 1
  /\ clients = {"s1"}
  /\ used = {}
  /\ expired = 0
  /\ last = NoResponse
  /\ client = NoClient
  /\ env = DefaultEnv
  /\ \/ \E b \in Buffers :
          codec = [NoCodec EXCEPT !.pc = "buffer", !.buffer = b]
     \/ \E w \in Wires :
          codec = [NoCodec EXCEPT !.pc = "wire", !.wire = w]

ServerEncodes ==
  /\ codec.pc = "buffer"
  /\ codec' = [codec EXCEPT !.pc = "wire", !.encoder = "server",
                            !.wire = bufferToBase64url(codec.buffer)]
  /\ UNCHANGED Rest

ClientEncodes ==
  /\ codec.pc = "buffer"
  /\ codec' = [codec EXCEPT !.pc = "wire", !.encoder = "client",
                            !.wire = arrayBufferToBase64URL(codec.buffer)]
  /\ UNCHANGED Rest

ServerDecodes ==
  /\ codec.pc = "wire"
  /\ codec' = [codec EXCEPT !.pc = "done", !.decoder = "server",
                            !.out = base64URLToBuffer(codec.wire)]
  /\ UNCHANGED Rest

ClientDecodes ==
  /\ codec.pc = "wire"
  /\ codec' = [codec EXCEPT !.pc = "done", !.decoder = "client",
                            !.out = clientBase64URLToBuffer(codec.wire)]
  /\ UNCHANGED Rest

NextCodec ==
  \/ ServerEncodes
  \/ ClientEncodes
  \/ ServerDecodes
  \/ ClientDecodes

SpecCodec == InitCodec /\ [][NextCodec]_vars

\* The server before its first request.
Fresh ==
  /\ store = [s \in Sessions |-> EmptySession]
  /\ users = <<>>
  /\ creds = <<>>
  /\ nextChallenge = 1
  /\ seen = {}
  /\ reqs = EmptyBag
  /\ cap = 1
  /\ clients = {"s1"}
  /\ used = {}
  /\ expired = 0
  /\ last = NoResponse

\* The configuration on its own: the server is started under one of the
\* configurations and its handlers call getOrigin and getRpId.
InitEnv ==
  /\ Fresh
  /\ codec = NoCodec
  /\ client = NoClient
  /\ env \in {Environment(o, p, h, n, r) :
                o \in Origins, p \in Protocols, h \in Hosts, n \in Ports,
                r \in RpIds}

CallsGetOrigin ==
  /\ "getOrigin" \notin env.called
  /\ env' = [env EXCEPT !.called = @ \cup {"getOrigin"}, !.origin = getOrigin]
  /\ UNCHANGED <<Backend, codec, client>>

CallsGetRpId ==
  /\ "getRpId" \notin env.called
  /\ env' = [env EXCEPT !.called = @ \cup {"getRpId"}, !.rpId = getRpId]
  /\ UNCHANGED <<Backend, codec, client>>

NextEnv ==
  \/ CallsGetOrigin
  \/ CallsGetRpId

SpecEnv == InitEnv /\ [][NextEnv]_vars

\* ---- Client ----
\* What a request of the client comes back with: a 2xx response or an
\* error (a rejection or no response at all).
Results == {TRUE, FALSE}

\* What /auth/verify-session answers: authenticated with a user, not
\* authenticated, or an error.
Authenticated == "authenticated"
Anonymous == "anonymous"
Failed == "failed"
SessionAnswers == {Authenticated, Anonymous, Failed}

\* A value of sessionStorage that JSON.parse rejects.
Unparsable == "{"
TheUser == "alice"

Call(to, ok) == [to |-> to, ok |-> ok]

\* setCurrentUser(user): the effect on currentUser runs
\* checkSessionValidity when the new value is a user.
SetCurrentUser(c, user) ==
  [c EXCEPT !.currentUser = user,
            !.validity = IF user # NoName /\ user # c.currentUser
                         THEN "due" ELSE @]

\* The page is loaded with whatever sessionStorage holds.
InitClient ==
  /\ Fresh
  /\ codec = NoCodec
  /\ env = DefaultEnv
  /\ \E stored \in {NoName, TheUser, Unparsable} :
       client = [NoClient EXCEPT !.pc = "checkAuth", !.stored = stored]

\* AuthProvider, checkAuth up to its call of verifySession.
CheckAuth ==
  /\ client.pc = "checkAuth"
  /\ client' =
       IF client.stored = NoName
       THEN [client EXCEPT !.pc = "checkAuth/server"]
       ELSE IF client.stored = Unparsable
       THEN [client EXCEPT !.pc = "idle", !.stored = NoName]
       ELSE [SetCurrentUser(client, client.stored)
             EXCEPT !.pc = "checkAuth/stored", !.username = client.stored]
  /\ UNCHANGED <<Backend, codec, env>>

\* checkAuth from the answer of verifySession on.
CheckAuthVerified(answer) ==
  /\ client.pc \in {"checkAuth/server", "checkAuth/stored"}
  /\ client' =
       [(IF client.pc = "checkAuth/stored" THEN client
         ELSE IF answer = Authenticated
         THEN [SetCurrentUser(client, TheUser) EXCEPT !.stored = TheUser]
         ELSE SetCurrentUser(client, NoName))
        EXCEPT !.pc = "idle", !.answers = @ \cup {answer}]
  /\ UNCHANGED <<Backend, codec, env>>

\* A checkSessionValidity that keeps the user whatever the server says.
CheckSessionValidityTrusting(answer) ==
  /\ client.validity = "due"
  /\ client' = [client EXCEPT !.validity = "off",
                              !.answers = @ \cup {answer}]
  /\ UNCHANGED <<Backend, codec, env>>

\* checkSessionValidity, run by the effect on currentUser and by the
\* interval.
CheckSessionValidity(answer) ==
  /\ client.validity = "due"
  /\ client' =
       [(IF answer = Anonymous
         THEN [client EXCEPT !.stored = NoName, !.currentUser = NoName]
         ELSE client)
        EXCEPT !.validity = "off", !.answers = @ \cup {answer}]
  /\ UNCHANGED <<Backend, codec, env>>

\* The interval of the session persistence effect.
SessionCheckInterval ==
  /\ client.pc = "idle"
  /\ client.currentUser # NoName
  /\ client.validity = "off"
  /\ client' = [client EXCEPT !.validity = "due"]
  /\ UNCHANGED <<Backend, codec, env>>

\* The page is loaded again: the state of AuthProvider is lost,
\* sessionStorage is kept.
Reload ==
  /\ client.pc = "idle"
  /\ client.validity = "off"
  /\ client' = [NoClient EXCEPT !.pc = "checkAuth", !.stored = client.stored]
  /\ UNCHANGED <<Backend, codec, env>>

\* Login.jsx, handleWebAuthnAuthentication up to sendLoginResponse.
HandleLogin(username) ==
  /\ client.pc = "idle"
  /\ client' = [client EXCEPT !.pc = "login/response",
                              !.username = username,
                              !.op = "sendLoginResponse", !.calls = <<>>,
                              !.outcome = "started"]
  /\ UNCHANGED <<Backend, codec, env>>

\* sendLoginResponse, first version of authService.js.
SendLoginResponse(ok) ==
  /\ client.pc = "login/response"
  /\ client' =
       [client EXCEPT
          !.calls = Append(@, Call("/auth/login/response", ok)),
          !.pc = IF ok THEN "verified" ELSE "idle",
          !.outcome = IF ok THEN "returned" ELSE "thrown",
          !.stored = IF ok THEN client.username ELSE @]
  /\ UNCHANGED <<Backend, codec, env>>

\* sendLoginResponse, second version of authService.js: when the request
\* fails it goes on to /auth/login-direct.
SendLoginResponseV2(ok) ==
  /\ client.pc = "login/response"
  /\ client' =
       [client EXCEPT
          !.calls = Append(@, Call("/auth/login/response", ok)),
          !.pc = IF ok THEN "verified" ELSE "login-direct",
          !.outcome = IF ok THEN "returned" ELSE @,
          !.stored = IF ok THEN client.username ELSE @]
  /\ UNCHANGED <<Backend, codec, env>>

SendLoginDirectV2(ok) ==
  /\ client.pc = "login-direct"
  /\ client' =
       [client EXCEPT
          !.calls = Append(@, Call("/auth/login-direct", ok)),
          !.pc = IF ok THEN "verified" ELSE "idle",
          !.outcome = IF ok THEN "returned" ELSE "thrown"]
  /\ UNCHANGED <<Backend, codec, env>>

\* handleWebAuthnAuthentication after sendLoginResponse has returned a
\* response with status ok: it stores the user and calls login().
LoginVerified ==
  /\ client.pc = "verified"
  /\ client' = [SetCurrentUser(client, client.username)
                EXCEPT !.pc = "idle", !.stored = client.username]
  /\ UNCHANGED <<Backend, codec, env>>

\* sendRegistrationResponse: the three requests it makes.
RegistrationEndpoints ==
  <<"/auth/register/response", "/auth/register-simple",
    "/auth/register-direct">>

\* sendRegistrationResponse is called: it builds the payload and is about
\* to make its first request.
CallsSendRegistrationResponse(username) ==
  /\ client.pc = "idle"
  /\ client' = [client EXCEPT !.pc = RegistrationEndpoints[1],
                              !.username = username,
                              !.op = "sendRegistrationResponse",
                              !.calls = <<>>, !.outcome = "started"]
  /\ UNCHANGED <<Backend, codec, env>>

\* A sendRegistrationResponse that goes straight from the first endpoint
\* to the third.
SendRegistrationResponseSkipping(i, ok) ==
  /\ client.pc = RegistrationEndpoints[i]
  /\ client' =
       [client EXCEPT
          !.calls = Append(@, Call(RegistrationEndpoints[i], ok)),
          !.pc = IF ok \/ i = 3 THEN "idle" ELSE RegistrationEndpoints[3],
          !.outcome = IF ok THEN "returned"
                      ELSE IF i = 3 THEN "thrown" ELSE @]
  /\ UNCHANGED <<Backend, codec, env>>

\* The i-th request of sendRegistrationResponse and what follows it.
SendRegistrationResponse(i, ok) ==
  /\ client.pc = RegistrationEndpoints[i]
  /\ client' =
       [client EXCEPT
          !.calls = Append(@, Call(RegistrationEndpoints[i], ok)),
          !.pc = IF ok \/ i = 3 THEN "idle" ELSE RegistrationEndpoints[i + 1],
          !.outcome = IF ok THEN "returned"
                      ELSE IF i = 3 THEN "thrown" ELSE @]
  /\ UNCHANGED <<Backend, codec, env>>

\* AuthContext.logout up to its call of logoutUser.
logout ==
  /\ client.pc = "idle"
  /\ client' = [client EXCEPT !.pc = "logout", !.stored = NoName,
                              !.op = "logout", !.calls = <<>>,
                              !.outcome = "started"]
  /\ UNCHANGED <<Backend, codec, env>>

\* A logout that leaves the user in place when the server request fails.
LoggedOutUnlessFailed(ok) ==
  /\ client.pc = "logout"
  /\ client' =
       [client EXCEPT
          !.calls = Append(@, Call("/auth/logout", ok)),
          !.pc = "idle",
          !.outcome = IF ok THEN "returned" ELSE "thrown",
          !.currentUser = IF ok THEN NoName ELSE @]
  /\ UNCHANGED <<Backend, codec, env>>

\* logout from the answer of logoutUser on.
LoggedOut(ok) ==
  /\ client.pc = "logout"
  /\ client' =
       [client EXCEPT
          !.calls = Append(@, Call("/auth/logout", ok)),
          !.pc = "idle",
          !.outcome = IF ok THEN "returned" ELSE "thrown",
          !.currentUser = NoName, !.stored = NoName]
  /\ UNCHANGED <<Backend, codec, env>>

NextClient ==
  \/ CheckAuth
  \/ \E answer \in SessionAnswers : CheckAuthVerified(answer)
  \/ \E answer \in SessionAnswers : CheckSessionValidity(answer)
  \/ SessionCheckInterval
  \/ Reload
  \/ HandleLogin(TheUser)
  \/ \E ok \in Results : SendLoginResponse(ok)
  \/ \E ok \in Results : SendLoginResponseV2(ok)
  \/ \E ok \in Results : SendLoginDirectV2(ok)
  \/ LoginVerified
  \/ CallsSendRegistrationResponse(TheUser)
  \/ \E i \in 1..3, ok \in Results : SendRegistrationResponse(i, ok)
  \/ logout
  \/ \E ok \in Results : LoggedOut(ok)

SpecClient == InitClient /\ [][NextClient]_vars

\* ------------------------------------------------------------ properties
\* The two routes that verify a signed response.
Completions == {"register/response", "login/response"}

\* The request req has passed verification.
Verified(req) == req.pc \in {"update", "createCredential"}

\* The /login/response requests that take their last step.
LoginFinishing == {req \in InFlight : req.pc = "update" /\ reqs' = Take(req)}

\* C1: a session's authenticated flag goes from false to true only in a
\* step that answers a /register/response or a /login/response of that
\* session with success, that is, after the attestation or assertion was
\* verified against the session's pending challenge.
C1_AuthenticatedOnlyByVerification ==
  [][\A s \in Sessions :
       (~store[s].authenticated /\ store'[s].authenticated)
         => /\ last'.sess = s
            /\ last'.status = "ok"
            /\ last'.op \in Completions]_vars

\* C2: a Credential row is inserted only by a step that answers a
\* /register/response with success after verifying against a challenge the
\* server handed out, and the row's public key is not the placeholder.
C2_CredentialOnlyByVerifiedRegistration ==
  [][Len(creds') > Len(creds)
       => /\ last'.op = "register/response"
          /\ last'.status = "ok"
          /\ last'.challenge \in seen
          /\ creds'[Len(creds')].publicKey # PlaceholderKey]_vars

\* C3: the pending challenge of a session is never a value a client chose.
C3_PendingChallengeServerGenerated ==
  \A s \in Sessions : store[s].challenge.kind # "client"

\* C4: single use, sequential: a /login/response never succeeds on a
\* challenge issued by /login that a /login/response has already succeeded
\* on.
C4_SingleUseSequential ==
  [][(/\ last'.op = "login/response"
      /\ last'.status = "ok"
      /\ last'.challenge.kind = "authentication")
       => last'.challenge \notin used]_vars

\* C5: when a completion found a pending challenge and rejected the
\* response, the session has no pending challenge afterwards.
C5_FailedAttemptInvalidates ==
  (/\ last.op \in Completions
   /\ last.status = "error"
   /\ last.challenge # NoChallenge)
    => store[last.sess].challenge = NoChallenge

\* C6: single use, concurrent: when a completion has succeeded on a
\* handed-out challenge, no other request of the same route and session
\* has passed verification against that same challenge.
C6_SingleUseConcurrent ==
  \A req \in InFlight :
    ~(/\ last.op \in Completions
      /\ last.status = "ok"
      /\ last.challenge \in seen
      /\ Verified(req)
      /\ req.op = last.op
      /\ req.sess = last.sess
      /\ req.session.challenge = last.challenge)

\* C7: /register/response never succeeds on a challenge that /login
\* issued, and /login/response never succeeds on a challenge that /register
\* issued.
C7_ChallengeBoundToKind ==
  /\ (last.op = "register/response" /\ last.status = "ok")
       => last.challenge.kind # "authentication"
  /\ (last.op = "login/response" /\ last.status = "ok")
       => last.challenge.kind # "registration"

\* The credential id presented by the request req belongs to a Credential
\* of another user and to none of the session's user.
Foreign(req) ==
  LET bound == FindUser(req.session.username)
      rawId == req.body.rawId
  IN /\ \E i \in 1..Len(creds) :
          creds[i].credentialId = rawId /\ creds[i].userId # bound
     /\ \A i \in CredentialsOf(bound) : creds[i].credentialId # rawId

\* C8: cross-account isolation: a /login/response that presents a
\* credential id owned by another user than the one the session is bound
\* to never succeeds.
C8_CrossAccountIsolation ==
  [][\A req \in LoginFinishing : ~Foreign(req)]_vars

\* No step lowers the counter of a Credential row.
NonDecreasing ==
  \A i \in 1..Len(creds) : creds'[i].counter >= creds[i].counter

\* C9: counter monotonicity: no step lowers a stored counter; a
\* /login/response that succeeds did not present a nonzero counter less
\* than or equal to the stored one; and a response rejected as a rollback
\* leaves the Credential rows and the session's authenticated flag as they
\* were.
C9_CounterMonotonic ==
  [][/\ NonDecreasing
     /\ \A req \in LoginFinishing :
          ~(/\ req.body.counter # 0
            /\ req.body.counter <= creds[req.cred].counter)
     /\ (last'.reason = RollbackMsg /\ last = NoResponse)
          => /\ creds' = creds
             /\ store'[last'.sess].authenticated
                  = store[last'.sess].authenticated]_vars

\* A /login/response was rejected as a rollback against a stored counter
\* above 0.
C9_Witness ==
  /\ last.op = "login/response"
  /\ last.reason = RollbackMsg
  /\ \E i \in CredentialsOf(FindUser(store[last.sess].username)) :
       creds[i].counter > 0

\* C10: under concurrent /login/response requests the stored counter of a
\* Credential never ends lower than a value stored before.
C10_CounterNeverLower == [][NonDecreasing]_vars


\* The client data cd names another origin or another RP id than the ones
\* the server expects.
Mismatched(cd) == cd.origin # getOrigin \/ cd.rpId # getRpId

\* The completion requests that take their last step.
Finishing == {req \in InFlight : Verified(req) /\ reqs' = Take(req)}

\* C11: origin binding: no /register/response and no /login/response whose
\* client data carries another origin or RP id than the expected one gets
\* past verification, whatever key signed it; a completion is answered
\* with success only by the last step of a request that got past
\* verification; and the step that answers a completion with an error
\* writes no Credential row, no counter and does not set the session's
\* authenticated flag.
C11_OriginBinding ==
  [][/\ \A req \in InFlight : Verified(req) => ~Mismatched(req.body.cd)
     /\ (last = NoResponse /\ last'.op \in Completions)
          => IF last'.status = "ok" THEN Finishing # {}
             ELSE /\ creds' = creds
                  /\ store'[last'.sess].authenticated
                       = store[last'.sess].authenticated]_vars

\* A /login/response with the right type and challenge, signed with the
\* key of a Credential of the session's user, was rejected for its origin.
C11_Witness ==
  /\ last.op = "login/response"
  /\ last.reason = "clientData origin did not match expected origin"
  /\ \E i \in CredentialsOf(FindUser(store[last.sess].username)) :
       creds[i].publicKey \in First(Keys, {})

\* C12: challenge expiry: no /register/response and no /login/response is
\* answered with success when the pending challenge it found in the session
\* is a handed-out challenge older than the ceremony timeout.
C12_ExpiredChallengeRejected ==
  (/\ last.op \in Completions
   /\ last.status = "ok"
   /\ last.challenge \in seen)
    => last.challenge.n > expired

\* C13: no two Credential rows carry the same credentialId, whoever owns
\* them.
C13_CredentialIdUnique ==
  \A i, j \in 1..Len(creds) :
    creds[i].credentialId = creds[j].credentialId => i = j

\* C14: when the session's user owns two or more Credential rows, all of
\* them with an attested key, and a /login/response presents the
\* credentialId of one of them, the row whose key and counter the assertion
\* was verified against, and whose counter is updated, is that one.
C14_SelectedByPresentedId ==
  [][\A req \in LoginFinishing :
       LET mine == CredentialsOf(creds[req.cred].userId) IN
       (/\ Cardinality(mine) >= 2
        /\ \A i \in mine : creds[i].publicKey # PlaceholderKey
        /\ \E i \in mine : creds[i].credentialId = req.body.rawId)
         => creds[req.cred].credentialId = req.body.rawId]_vars

\* C15: every rejected /login/response gives the client the same status
\* and body.  The status is the same for all of them (500), and the body
\* carries the message of the error; a /login/response without a pending
\* challenge is rejected with NoChallengeMsg, so the rejections are all
\* alike exactly when each of them carries that message.
C15_UniformRejection ==
  (last.op = "login/response" /\ last.status = "error")
    => last.reason = NoChallengeMsg

\* The client data cd is the one of a registration answering challenge.
Attests(cd, challenge) ==
  /\ cd.type = TypeCreate
  /\ cd.challenge = challenge
  /\ ~Mismatched(cd)

\* The messages with which an attestation is rejected against challenge.
AttestationRejections(challenge) ==
  {AttestationResult(cd, challenge, getOrigin, getRpId) : cd \in ClientDatas}
    \ {""}

\* C16: a /register/response reaches its database writes only with client
\* data of the right type, challenge, origin and RP id; and the step that
\* rejects an attestation leaves the Users and the Credentials table as
\* they were.
C16_RejectedAttestationWritesNothing ==
  [][/\ \A req \in InFlight :
          (req.op = "register/response" /\ Verified(req))
            => Attests(req.body.cd, req.session.challenge)
     /\ (/\ last = NoResponse
         /\ last'.op = "register/response"
         /\ last'.reason \in AttestationRejections(last'.challenge))
          => users' = users /\ creds' = creds]_vars

\* An attestation was rejected while the tables held rows.
C16_Witness ==
  /\ last.op = "register/response"
  /\ last.reason \in AttestationRejections(last.challenge)
  /\ users # <<>>
  /\ creds # <<>>

\* C17: when User.create or Credential.create failed in a
\* /register/response, the challenge the request was verified against is
\* no longer the session's pending challenge.
C17_PersistenceFailureConsumes ==
  (last.op = "register/response" /\ last.reason = PersistenceMsg)
    => store[last.sess].challenge # last.challenge

\* The usernames that have a User row.
Registrants == {users[i].username : i \in 1..Len(users)}

\* C18: a /register that is answered with success binds a username that
\* has no User row; a /register that is answered with an error hands out
\* no challenge and leaves the session as it was, so a /register for a
\* username with a User row issues no challenge and binds no identity.
C18_ExistingUserRejected ==
  [][(last = NoResponse /\ last'.op = "register")
       => IF last'.status = "ok"
          THEN store'[last'.sess].username \notin Registrants
          ELSE /\ store' = store
               /\ seen' = seen
               /\ nextChallenge' = nextChallenge]_vars

\* A /register was rejected because the username has a User row.
C18_Witness ==
  /\ last.op = "register"
  /\ last.reason = "Username already exists"
  /\ store[last.sess].username \notin Registrants

\* The rows of the Users table with the username name.
RowsOf(name) == {i \in 1..Len(users) : users[i].username = name}

\* C19: a /register/response whose session username has no User row
\* inserts one User row with that username; and when the request is
\* answered with success and its user owned no Credential row before, the
\* Users table holds exactly one row with the session's username, the
\* Credentials table has gained exactly one row, that row is the only one
\* the user owns, its credentialId is the presented one and its counter is
\* the reported initial counter, or 0 when none was reported.
C19_OneUserOneCredential ==
  [][/\ \A req \in At("createUser") :
          users' # users
            => /\ RowsOf(req.session.username) = {}
               /\ users' = Append(users, [username |-> req.session.username])
     /\ \A req \in Finishing :
          (/\ req.op = "register/response"
           /\ last'.status = "ok"
           /\ CredentialsOf(req.user) = {})
            => /\ users' = users
               /\ RowsOf(req.session.username) = {req.user}
               /\ Len(creds') = Len(creds) + 1
               /\ SubSeq(creds', 1, Len(creds)) = creds
               /\ LET row == creds'[Len(creds')] IN
                  /\ row.userId = req.user
                  /\ row.credentialId = req.body.rawId
                  /\ row.counter = IF req.body.counter = NoCounter THEN 0
                                   ELSE req.body.counter]_vars

\* A /register/response has succeeded for the user inserted last, who owns
\* the Credential row inserted last and no other, with a counter above 0.
C19_Witness ==
  /\ last.op = "register/response"
  /\ last.status = "ok"
  /\ users # <<>>
  /\ users[Len(users)].username = store[last.sess].username
  /\ CredentialsOf(Len(users)) = {Len(creds)}
  /\ creds[Len(creds)].counter > 0

\* C20: the step that answers a /login/response with success leaves the
\* Credential row the assertion was verified against with the counter the
\* assertion presented, and leaves every other Credential row as it was.
C20_CounterAdvancedToPresented ==
  [][\A req \in LoginFinishing :
       /\ last'.status = "ok"
       /\ Len(creds') = Len(creds)
       /\ creds'[req.cred].counter = req.body.counter
       /\ \A i \in 1..Len(creds) : i # req.cred => creds'[i] = creds[i]]_vars

\* A /login/response that presented a counter above the stored one, which
\* is above 0, has been verified and stands before its counter update,
\* while its user owns another Credential row.
C20_Witness ==
  \E req \in InFlight :
    /\ req.pc = "update"
    /\ creds[req.cred].counter > 0
    /\ req.body.counter > creds[req.cred].counter
    /\ CredentialsOf(creds[req.cred].userId) # {req.cred}

\* C21: counter-zero policy: a /login/response that reaches its counter
\* update presented either a counter above the stored one, or 0 against a
\* stored 0; and the step that answers a /login/response that presented 0
\* against a stored counter above 0, or a counter above 0 and not above
\* the stored one, answers with an error, writes no Credential row and
\* does not set the session's authenticated flag.
C21_CounterZeroPolicy ==
  [][/\ \A req \in LoginFinishing :
          LET presented == req.body.counter
              stored == creds[req.cred].counter
          IN IF presented = 0 THEN stored = 0 ELSE presented > stored
     /\ (last = NoResponse /\ last'.reason = RollbackMsg)
          => /\ last'.status = "error"
             /\ creds' = creds
             /\ store'[last'.sess].authenticated
                  = store[last'.sess].authenticated]_vars

\* A /login/response that presented counter 0 was rejected for its counter
\* (the stored counter is then above 0).
C21_Witness ==
  /\ last.op = "login/response"
  /\ last.status = "error"
  /\ last.reason = RollbackMsg
  /\ last.counter = 0

C24_CredentialReferencesUser ==
  [][/\ \A i \in 1..Len(creds) : creds[i].userId \in 1..Len(users)
     /\ \A i \in 1..Len(creds') : creds'[i].userId \in 1..Len(users')
     /\ Len(users') >= Len(users)
     /\ SubSeq(users', 1, Len(users)) = users]_vars

\* Two users own a Credential row each.
C24_Witness ==
  /\ Len(users) >= 2
  /\ \A u \in 1..Len(users) : CredentialsOf(u) # {}

\* No two rows of the Users table in the sequence rows carry the same
\* username.
UniqueUsernames(rows) ==
  \A i, j \in 1..Len(rows) : rows[i].username = rows[j].username => i = j

C25_MalformedRejected ==
  [][\A req \in Finishing :
       last'.status = "ok" => req.body.missing = Nothing]_vars

\* The same for the fields the handlers dereference (rawId, response and
\* the fields of response): those bodies never reach a write.
DereferencedRejected ==
  [][\A req \in Finishing :
       last'.status = "ok" => req.body.missing \notin Dereferenced]_vars

\* C26: codec round trip: a buffer encoded by the server's
\* bufferToBase64url or by the client's arrayBufferToBase64URL and decoded
\* by the server's base64URLToBuffer comes out as the same buffer, and the
\* encoded string is made of base64url characters only, without "=".
C26_RoundTrip ==
  /\ codec.encoder # "" =>
       \A i \in 1..Len(codec.wire) : codec.wire[i] \in Base64UrlChars
  /\ codec.encoder # "" /\ codec.decoder = "server" =>
       codec.out = Decoded(codec.buffer)

C26_Witness ==
  /\ codec.encoder = "client"
  /\ codec.decoder = "server"
  /\ codec.buffer = <<251, 255>>
  /\ codec.wire = <<"-", "_", "8">>

\* C27: decoding a wire string that holds a character outside the
\* base64url alphabet fails with an error; it never returns a buffer.
C27_MalformedEncodingFails ==
  /\ codec.pc = "done"
  /\ \E i \in 1..Len(codec.wire) : codec.wire[i] \notin Base64UrlChars
  => codec.out.error # ""

\* What does hold: the client's decoder throws on every character that is
\* neither of an alphabet of base64 nor "=" nor white space.
ClientRejectsForeign ==
  /\ codec.pc = "done"
  /\ codec.decoder = "client"
  /\ \E i \in 1..Len(codec.wire) :
       codec.wire[i] \notin Base64UrlChars \cup {"+", "/", "="} \cup Whitespace
  => codec.out.error = InvalidCharacter

\* C28: the identity /verify-session reports for a session is the one
\* whose ceremony the session last completed: a /login or /register that
\* starts a ceremony never changes the identity the route reports for
\* that session to another user.
C28_StartKeepsIdentity ==
  [][\A s \in Sessions :
       /\ last'.op \in {"login", "register"}
       /\ last'.sess = s
       /\ Reported(store[s]) # NoName
       => Reported(store'[s]) \in {Reported(store[s]), NoName}]_vars

\* C29: a challenge that a successful /login/response has consumed is
\* never again the pending challenge of a session.
C29_ConsumedIsTerminal ==
  \A s \in Sessions : store[s].challenge \notin used

\* C30: of two registration ceremonies for the same unregistered username
\* that two sessions have started, at most one completion creates a
\* Credential: once the completion of one session has succeeded, a
\* /register/response of the other session for the same username is not
\* answered with success and adds no Credential.
C30_LaterCompletionRejected ==
  [][\A req \in Finishing :
       /\ req.op = "register/response"
       /\ \E other \in Sessions \ {req.sess} :
            /\ store[other].authenticated
            /\ store[other].username = req.session.username
       => /\ last'.status = "error"
          /\ creds' = creds]_vars

C32_AllOrNothing ==
  reqs = EmptyBag => \A u \in 1..Len(users) : CredentialsOf(u) # {}

\* C33: a /register or /login that is rejected leaves the session as it
\* was: its pending challenge, its username and its authenticated flag.
C33_RejectedIssueKeepsSession ==
  [][(last'.op \in {"login", "register"} /\ last'.status = "error")
       => /\ store'[last'.sess].challenge = store[last'.sess].challenge
          /\ store'[last'.sess].username = store[last'.sess].username
          /\ store'[last'.sess].authenticated
               = store[last'.sess].authenticated]_vars

\* A /login was rejected in an authenticated session that holds a pending
\* challenge.
C33_Witness ==
  /\ last.op = "login"
  /\ last.reason = "User not found or no credentials registered"
  /\ store[last.sess].challenge # NoChallenge
  /\ store[last.sess].authenticated

\* C38: the expected origin getOrigin returns never ends with "/",
\* whatever is configured.
C38_NoTrailingSlash ==
  ("getOrigin" \in env.called /\ env.origin # <<>>)
    => env.origin[Len(env.origin)] # "/"

\* What does hold: getOrigin returns the configured ORIGIN when it is set,
\* else the address built from the three components, less one "/" at the
\* end.
OriginFromConfiguration ==
  "getOrigin" \in env.called =>
    LET configured ==
          IF env.ORIGIN # Unset THEN env.ORIGIN
          ELSE env.FRONTEND_PROTOCOL \o <<":", "/", "/">>
                 \o env.FRONTEND_HOST \o <<":">> \o env.FRONTEND_PORT
    IN env.origin \in {configured, SubSeq(configured, 1, Len(configured) - 1)}

\* C39: getRpId returns the configured RP_ID when one is set and else the
\* hostname of the origin getOrigin returns, and nothing else.
C39_RpIdConfiguredOrHostname ==
  "getRpId" \in env.called =>
    IF env.RP_ID # NoRpId THEN env.rpId = env.RP_ID
    ELSE /\ Hostname(getOrigin) # Invalid
         /\ env.rpId = Hostname(getOrigin)

\* C34: sendLoginResponse uses /auth/login/response only: when that
\* request is rejected it makes no other request, throws, and neither
\* sessionStorage nor the user of AuthProvider changes.
C34_LoginResponseOnly ==
  [][(client.pc = "login/response" /\ client'.calls # client.calls
        /\ ~client'.calls[Len(client'.calls)].ok)
       => /\ client'.pc = "idle"
          /\ client'.outcome = "thrown"
          /\ client'.stored = client.stored
          /\ client'.currentUser = client.currentUser]_vars

\* C35: sendRegistrationResponse tries /auth/register/response,
\* /auth/register-simple and /auth/register-direct in this order, each
\* only after the one before it failed; it returns on the first request
\* that succeeds and throws only when the three have failed.
C35_RegistrationFallbackOrder ==
  client.op = "sendRegistrationResponse" =>
    LET n == Len(client.calls) IN
    /\ n <= 3
    /\ \A i \in 1..n : client.calls[i].to = RegistrationEndpoints[i]
    /\ \A i \in 1..(n - 1) : ~client.calls[i].ok
    /\ client.outcome = "returned" <=> (n > 0 /\ client.calls[n].ok)
    /\ client.outcome = "thrown" <=> (n = 3 /\ ~client.calls[3].ok)
    /\ client.outcome \in {"returned", "thrown"} <=> client.pc = "idle"

\* The first two requests failed and the third succeeded.
C35_Witness ==
  /\ client.op = "sendRegistrationResponse"
  /\ client.outcome = "returned"
  /\ Len(client.calls) = 3

C37_LogoutClears ==
  [][(client.pc = "logout" /\ client'.pc # "logout")
       => client'.currentUser = NoName /\ client'.stored = NoName]_vars

\* A logout whose server request failed.
C37_Witness ==
  /\ client.op = "logout"
  /\ client.outcome = "thrown"
  /\ client.calls = <<Call("/auth/logout", FALSE)>>
  /\ client.pc = "idle"
====
